---- MODULE Spec2Model ----
(***************************************************************************)
(* A model of the extension and dispatch engine of easyvk: the plugin      *)
(* registry of class VK (extend / setup), its exception handler registry   *)
(* (handleException / handleExceptionFirstly / removeExceptionHandler /    *)
(* processHandlers), and the response classification of class API          *)
(* (checkOnErrors / createResponse / resolveApiRequest).                   *)
(***************************************************************************)
EXTENDS Integers, Sequences, FiniteSets, TLC

(***************************************************************************)
(* Bounds of the model.                                                    *)
(***************************************************************************)
MaxQueue == 3      \* longest pluginsQueue an extend call may still extend
MaxEnables == 3    \* most onEnable invocations in one behaviour
MaxSetups == 2     \* most setup calls in one behaviour
MaxReqs == 1       \* most names in one plugin's requirements
MaxHandlerCalls == 3  \* most calls that register or remove an exception handler
MaxMiddlewares == 3   \* most middlewares in all pipelines together

(***************************************************************************)
(* Plugin classes.  The classes themselves are outside the sources; a      *)
(* class is what extend reads of its instance: name, requirements and      *)
(* setupAfter.                                                             *)
(***************************************************************************)
Undefined == "undefined"
PluginNames == {"storage", "auth", "chat"}
ClassNames == PluginNames \cup {"", "defaultPlugin"}
Requirements == {R \in SUBSET PluginNames : Cardinality(R) <= MaxReqs}
\* a class with a name extend rejects is rejected before its requirements
\* and setupAfter are read; a named class refers to other plugins
PluginClasses ==
  [name : ClassNames \ PluginNames, requirements : {{}}, setupAfter : {Undefined}]
  \cup {c \in [name : PluginNames, requirements : Requirements,
                setupAfter : PluginNames \cup {Undefined}] :
          c.name \notin c.requirements /\ c.setupAfter # c.name}

\* option objects: one key, "unset" when the key is absent
OptKeys == {"k"}
NoOptions == [k \in OptKeys |-> "unset"]
PluginOptions == {NoOptions, [k \in OptKeys |-> "a"]}
GlobalOverrides == {NoOptions, [k \in OptKeys |-> "b"]}

VARIABLES
  pluginsQueue,       \* VK.pluginsQueue: the wrappers {plugin, options, name}
  pluginsQueueNames,  \* VK.pluginsQueueNames
  plugins,            \* VK.plugins: names marked installed
  queuePromises,      \* VK.queuePromises: indices into enables
  enables,            \* every onEnable invocation so far, in invocation order
  setups,             \* every setup call so far and its returned promise
  last,               \* the most recent call and what it saw
  errors,             \* VK.options.errors: the sentinels and codes
  res,                \* response.data of the response under classification
  outcome,            \* what API.createResponse did with res
  handlersExceptions, \* VK.handlersExceptions, in insertion order
  handlers,           \* VK.handlers: the handler list of every exception type
  handlerCalls,       \* number of calls that registered or removed a handler
  handles,            \* the positions handleException and handleExceptionFirstly
                      \* have returned, and the last removeExceptionHandler call
  call,               \* the API call in flight: API.resolveApiRequest and
                      \* the VK.processHandlers it awaits
  other,              \* a second API call in flight at the same time, with
                      \* its own processHandlers invocation
  composersStack,     \* VK.composersStack: the pipeline of every composer
  composerLog,        \* per composer name: Composer objects constructed for
                      \* it, the stack it was created with, the middlewares
                      \* use added since
  lastComposer        \* the most recent composer call and what it saw

pluginVars ==
  <<pluginsQueue, pluginsQueueNames, plugins, queuePromises, enables, setups, last>>

classifyVars == <<errors, res, outcome>>

handlerVars == <<handlersExceptions, handlers, handlerCalls, handles, call, other>>

composerVars == <<composersStack, composerLog, lastComposer>>

vars == <<pluginsQueue, pluginsQueueNames, plugins, queuePromises, enables, setups,
          last, errors, res, outcome, handlersExceptions, handlers, handlerCalls,
          handles, call, other, composersStack, composerLog, lastComposer>>

----------------------------------------------------------------------------
(***************************************************************************)
(* Array helpers with JavaScript's meaning.                                *)
(***************************************************************************)
\* Array.prototype.splice(i, 0, x) with i the 1-based position
Splice(s, i, x) == SubSeq(s, 1, i - 1) \o <<x>> \o SubSeq(s, i, Len(s))

\* an element of pluginsQueueNames: a name string, or (line 132) a wrapper
NameEntry(n) == [isName |-> TRUE, name |-> n]
WrapperEntry(n) == [isName |-> FALSE, name |-> n]

\* pluginsQueueNames.indexOf(name): 1-based position, 0 for JavaScript's -1
NamesIndexOf(names, n) ==
  IF \E i \in 1..Len(names) : names[i] = NameEntry(n)
  THEN CHOOSE i \in 1..Len(names) :
         /\ names[i] = NameEntry(n)
         /\ \A j \in 1..(i - 1) : names[j] # NameEntry(n)
  ELSE 0

\* w === v for a queued wrapper w and the value v of plugIn.setupAfter: the
\* wrappers are objects created inside extend, v is never one of them
StrictEqualsWrapper(w, v) == FALSE

\* this.pluginsQueue.indexOf(plugIn.setupAfter)
QueueIndexOf(queue, v) ==
  IF \E i \in 1..Len(queue) : StrictEqualsWrapper(queue[i], v)
  THEN CHOOSE i \in 1..Len(queue) :
         /\ StrictEqualsWrapper(queue[i], v)
         /\ \A j \in 1..(i - 1) : ~StrictEqualsWrapper(queue[j], v)
  ELSE 0

hasPlugin(installed, n) == \E i \in 1..Len(installed) : installed[i] = n

pluginInQueue(names, n) == NamesIndexOf(names, n) # 0

\* a requirement loop that accepts installed plugins only
RequirementMissingInstalledOnly(installed, names, reqs) ==
  \E r \in reqs : ~hasPlugin(installed, r)

\* the requirement loop of extend throws
RequirementMissing(installed, names, reqs) ==
  \E r \in reqs : ~hasPlugin(installed, r) /\ NamesIndexOf(names, r) = 0

Registry(q, n, p, qp, en) ==
  [queue |-> q, names |-> n, plugins |-> p, queuePromises |-> qp, enables |-> en]

EmptyRegistry == Registry(<<>>, <<>>, <<>>, <<>>, <<>>)

NewEnable(n, o, by) == [name |-> n, options |-> o, by |-> by, state |-> "pending"]

\* an install branch taken whenever the plugin is not newly queued
InstallsNowUnlessQueued(addInQueue) == TRUE

\* line 144: else if (!addInQueue)
InstallsNow(addInQueue) == ~addInQueue

\* a push at the end that does not look at addInQueue
QueuesAtEndAlways(setupAfter, addInQueue) == setupAfter = Undefined

\* line 136: !plugIn.setupAfter && addInQueue
QueuesAtEnd(setupAfter, addInQueue) == setupAfter = Undefined /\ addInQueue

PushQueue(reg, w) ==
  [reg EXCEPT !.queue = Append(@, w), !.names = Append(@, NameEntry(w.name))]

(***************************************************************************)
(* VK.extend(plugin, pluginOptions, addInQueue): the registry it leaves    *)
(* and how it ends ("ok" or the Error it throws).                          *)
(***************************************************************************)
extend(reg, plugIn, pluginOptions, addInQueue) ==
  IF plugIn.name = "" \/ plugIn.name = "defaultPlugin"
  THEN [reg |-> reg, result |-> "UniqueNameError"]
  ELSE IF hasPlugin(reg.plugins, plugIn.name)
  THEN [reg |-> reg, result |-> "AlreadyInstalledError"]
  ELSE IF RequirementMissing(reg.plugins, reg.names, plugIn.requirements)
  THEN [reg |-> reg, result |-> "RequiresError"]
  ELSE
    LET newPlugin == [name |-> plugIn.name, options |-> pluginOptions]
        setupAfterIndex ==
          IF plugIn.setupAfter # Undefined /\ addInQueue
          THEN QueueIndexOf(reg.queue, plugIn.setupAfter) ELSE 0
        r1 == IF setupAfterIndex # 0
              THEN [reg EXCEPT
                      !.queue = Splice(@, setupAfterIndex, newPlugin),
                      !.names = Splice(@, setupAfterIndex, WrapperEntry(plugIn.name))]
              ELSE reg
        r2 == IF QueuesAtEnd(plugIn.setupAfter, addInQueue)
              THEN PushQueue(r1, newPlugin) ELSE r1
        r3 == IF ~pluginInQueue(r2.names, plugIn.name) /\ addInQueue
              THEN PushQueue(r2, newPlugin)
              ELSE IF InstallsNow(addInQueue)
              THEN [r2 EXCEPT
                      !.plugins = Append(@, plugIn.name),
                      !.enables = Append(@, NewEnable(plugIn.name, pluginOptions, "extend")),
                      !.queuePromises = Append(@, Len(r2.enables) + 1)]
              ELSE r2
    IN [reg |-> r3, result |-> "ok"]

\* a merge in which the registration options win over the override
MergeOptionsDefaultsWin(options, override) ==
  [k \in OptKeys |-> IF options[k] # "unset" THEN options[k] ELSE override[k]]

\* {...options, ...(globalPluginOptions[plugin.name] || {})}
MergeOptions(options, override) ==
  [k \in OptKeys |-> IF override[k] # "unset" THEN override[k] ELSE options[k]]

\* the promises onEnable returns for the queue, front to back
RECURSIVE Initers(_, _, _)
Initers(queue, globalPluginOptions, i) ==
  IF i > Len(queue) THEN <<>>
  ELSE <<NewEnable(queue[i].name,
                   MergeOptions(queue[i].options, globalPluginOptions[queue[i].name]),
                   "setup")>>
       \o Initers(queue, globalPluginOptions, i + 1)

\* a setup that marks nothing installed
QueueNamesNone(queue) == <<>>

QueueNamesOf(queue) == [i \in 1..Len(queue) |-> queue[i].name]

Range(s) == {s[i] : i \in 1..Len(s)}

CurrentRegistry == Registry(pluginsQueue, pluginsQueueNames, plugins, queuePromises, enables)

(***************************************************************************)
(* JavaScript values as far as the response classification reads them: a  *)
(* primitive is its type t and its text s, an object is its fields f.      *)
(***************************************************************************)
Undef == [t |-> "undefined"]
Null == [t |-> "null"]
Str(x) == [t |-> "string", s |-> x]
Num(x) == [t |-> "number", s |-> x]
Bool(x) == [t |-> "boolean", s |-> x]
Obj(fields) == [t |-> "object", f |-> fields]

\* the object with the fields named in a set of <<name, value>> pairs
\* (a pair whose value is undefined stands for an absent field)
Fields(pairs) ==
  LET present == {p \in pairs : p[2] # Undef}
  IN [n \in {p[1] : p \in present} |-> (CHOOSE p \in present : p[1] = n)[2]]

\* v.n: the primitives have none of the fields read here
Get(v, n) == IF v.t = "object" /\ n \in DOMAIN v.f THEN v.f[n] ELSE Undef

\* ToBoolean(v)
Truthy(v) ==
  CASE v.t = "object" -> TRUE
    [] v.t = "string" -> v.s # ""
    [] v.t = "number" -> v.s # "0"
    [] v.t = "boolean" -> v.s = "true"
    [] OTHER -> FALSE

\* a === b; two objects here are never the same object
StrictEquals(a, b) ==
  /\ a.t = b.t
  /\ a.t # "object"
  /\ a.t \in {"string", "number", "boolean"} => a.s = b.s

\* a || b
OrElse(a, b) == IF Truthy(a) THEN a ELSE b

(***************************************************************************)
(* API.checkOnErrors and API.createResponse.                               *)
(***************************************************************************)
\* an exception thrown with these constructor arguments
Throw(type, message, data) ==
  [t |-> "object", kind |-> "throw", type |-> type, message |-> message,
   data |-> data]

\* a returned payload
Return(payload) == [kind |-> "return", payload |-> payload]

\* a choice without lines 117-121: the nested message is never overridden
ErrorTripleNestedFirst(r) ==
  LET error == Get(r, "error")
  IN IF Truthy(Get(error, "message"))
     THEN <<Get(error, "error_code"), Get(error, "message"),
            OrElse(Get(error, "error_type"), Str(""))>>
     ELSE IF Truthy(Get(error, "error_msg"))
     THEN <<Get(error, "error_code"), Get(error, "error_msg"),
            OrElse(Get(error, "error_type"), Str(""))>>
     ELSE IF Truthy(Get(r, "error_description"))
     THEN <<Get(r, "error_code"), Get(r, "error_description"),
            OrElse(Get(r, "error_type"), Str(""))>>
     ELSE <<Undef, Undef, Undef>>

\* lines 101-121: <<errorCode, errorMessage, errorType>>
ErrorTriple(r) ==
  LET error == Get(r, "error")
      first ==
        IF Truthy(Get(error, "message"))
        THEN <<Get(error, "error_code"), Get(error, "message"),
               OrElse(Get(error, "error_type"), Str(""))>>
        ELSE IF Truthy(Get(error, "error_msg"))
        THEN <<Get(error, "error_code"), Get(error, "error_msg"),
               OrElse(Get(error, "error_type"), Str(""))>>
        ELSE IF Truthy(Get(r, "error_description"))
        THEN <<Get(r, "error_code"), Get(r, "error_description"),
               OrElse(Get(r, "error_type"), Str(""))>>
        ELSE <<Undef, Undef, Undef>>
  IN IF Truthy(error) /\ Truthy(Get(r, "error_description"))
     THEN <<error, Get(r, "error_description"), OrElse(Get(r, "error_type"), Str(""))>>
     ELSE first

\* the object lines 134-135 read captcha_sid and captcha_img of: res.error
CaptchaSource(r) == Get(r, "error")

\* the object line 164 reads redirect_uri of: res
RedirectSource(r) == r

\* a captcha rule that knows the sentinel only
CaptchaRuleSentinelOnly(opts, error) == StrictEquals(error, opts.captchaError)

\* line 130: res.error === captchaError || res.error.error_code === captchaErrorCode
CaptchaRule(opts, error) ==
  \/ StrictEquals(error, opts.captchaError)
  \/ StrictEquals(Get(error, "error_code"), opts.captchaErrorCode)

\* line 81: response.data.response ? response.data.response : response.data
Payload(r) == IF Truthy(Get(r, "response")) THEN Get(r, "response") ELSE r

checkOnErrors(opts, r) ==
  IF r.t = "string"
  THEN Throw("RequestParseException",
             Str("Server responded with bad data (not a json)"), <<>>)
  ELSE IF r.t \in {"null", "undefined"}
  THEN Throw("TypeError", Undef, <<>>)
  ELSE IF Truthy(Get(r, "error"))
  THEN
    LET error == Get(r, "error")
        triple == ErrorTriple(r)
        errorMessage == triple[2]
    IN IF CaptchaRule(opts, error)
       THEN Throw("CaptchaException", errorMessage,
                  [code |-> triple[1], errorType |-> triple[3],
                   captchaSid |-> Get(CaptchaSource(r), "captcha_sid"),
                   captchaImg |-> Get(CaptchaSource(r), "captcha_img")])
       ELSE IF StrictEquals(error, opts.validationError)
       THEN IF Truthy(Get(r, "ban_info"))
            THEN Throw("HaveBanException", errorMessage,
                       [code |-> triple[1], errorType |-> triple[3],
                        banInfo |-> Get(r, "ban_info"),
                        redirectUri |-> OrElse(Get(r, "redirect_uri"), Null)])
            ELSE IF Truthy(Get(r, "validation_type"))
            THEN Throw("TwoFactorException", errorMessage,
                       [code |-> triple[1], errorType |-> triple[3],
                        validationType |-> Get(r, "validation_type"),
                        phoneMask |-> OrElse(Get(r, "phone_mask"), Str("")),
                        redirectUri |-> OrElse(Get(r, "redirect_uri"), Str("")),
                        validationSid |-> OrElse(Get(r, "validation_sid"), Str(""))])
            ELSE Throw("NeedValidationException", errorMessage,
                       [code |-> triple[1], errorType |-> triple[3]])
       ELSE IF StrictEquals(Get(error, "error_code"), opts.redirectErrorCode)
       THEN Throw("RedirectURIException", errorMessage,
                  [code |-> triple[1], errorType |-> triple[3],
                   redirectUri |-> Get(RedirectSource(r), "redirect_uri")])
       ELSE Throw("APIException", errorMessage,
                  [code |-> triple[1], errorType |-> triple[3]])
  ELSE Return(Undef)

\* the payload is response.data.response if that is truthy, else response.data
createResponse(opts, r) ==
  LET checked == checkOnErrors(opts, r)
  IN IF checked.kind = "throw" THEN checked
     ELSE Return(Payload(r))

\* VK.options.errors as the class declares it
DefaultErrors ==
  [captchaError |-> Str("need_captcha"), captchaErrorCode |-> Num("14"),
   validationError |-> Str("need_validation"), redirectErrorCode |-> Num("17")]

\* the configurations setOptions may leave
ErrorsOptions ==
  {DefaultErrors,
   [DefaultErrors EXCEPT !.captchaError = Str("need_validation")],
   [DefaultErrors EXCEPT !.redirectErrorCode = Num("14")],
   [DefaultErrors EXCEPT !.captchaErrorCode = Num("5"),
                         !.validationError = Str("invalid_client")]}

\* response bodies: every field is absent or has one of a few values
Absent(vs) == {Undef} \cup vs

NestedErrors ==
  {Obj(Fields({<<"error_code", code>>, <<"message", m>>, <<"error_msg", em>>,
               <<"captcha_sid", IF cap THEN Str("2") ELSE Undef>>,
               <<"captcha_img", IF cap THEN Str("img2") ELSE Undef>>,
               <<"redirect_uri", u>>})) :
     code \in Absent({Num("14"), Num("17"), Num("5")}),
     m \in Absent({Str("m")}), em \in Absent({Str("em")}),
     cap \in BOOLEAN, u \in Absent({Str("u")})}

ErrorMarkers ==
  Absent({Str("need_captcha"), Str("need_validation"), Str("invalid_client")})
    \cup NestedErrors

ObjectBodies ==
  {Obj(Fields({<<"error", e>>, <<"error_description", d>>,
               <<"captcha_sid", IF cap THEN Str("1") ELSE Undef>>,
               <<"captcha_img", IF cap THEN Str("url") ELSE Undef>>,
               <<"redirect_uri", u>>, <<"ban_info", b>>,
               <<"validation_type", vt>>, <<"response", rs>>})) :
     e \in ErrorMarkers, d \in Absent({Str("d")}), cap \in BOOLEAN,
     u \in Absent({Str("r")}), b \in Absent({Obj(<<>>)}),
     vt \in Absent({Str("2fa_sms")}),
     rs \in Absent({Num("0"), Null, Str("payload")})}

Bodies == ObjectBodies \cup {Str("not json"), Num("1"), Bool("false"), Null}

(***************************************************************************)
(* The exception handler registry and VK.processHandlers.                  *)
(***************************************************************************)
\* the exception classes and the class each one extends (their declarations
\* are in errors/, outside the sources)
ExceptionTypes ==
  {"Error", "TypeError", "RequestParseException", "APIException",
   "CaptchaException", "RedirectURIException", "NeedValidationException",
   "TwoFactorException", "HaveBanException"}

Extends(T) ==
  CASE T = "Error" -> "Object"
    [] T \in {"TypeError", "RequestParseException", "APIException"} -> "Error"
    [] T = "TwoFactorException" -> "NeedValidationException"
    [] OTHER -> "APIException"

\* the classes on the prototype chain of the constructor T, T excluded
RECURSIVE PrototypeChain(_)
PrototypeChain(T) ==
  IF T \notin ExceptionTypes THEN {}
  ELSE {Extends(T)} \cup PrototypeChain(Extends(T))

\* exceptionTypeHandled.isPrototypeOf(exceptionType)
isPrototypeOf(exceptionTypeHandled, exceptionType) ==
  exceptionTypeHandled \in PrototypeChain(exceptionType)

\* the condition of line 275, with the operands of isPrototypeOf swapped
MatchesDescendants(exceptionTypeHandled, exceptionType) ==
  \/ isPrototypeOf(exceptionType, exceptionTypeHandled)
  \/ exceptionTypeHandled = exceptionType

\* the condition of line 275
Matches(exceptionTypeHandled, exceptionType) ==
  \/ isPrototypeOf(exceptionTypeHandled, exceptionType)
  \/ exceptionTypeHandled = exceptionType

\* VK.exceptionHandlers(exceptionType)
exceptionHandlers(map, exceptionType) ==
  IF exceptionType \in DOMAIN map THEN map[exceptionType] ELSE <<>>

\* WeakMap.prototype.set
MapSet(map, key, value) ==
  [k \in DOMAIN map \cup {key} |-> IF k = key THEN value ELSE map[k]]

\* Set.prototype.add
SetAdd(set, x) == IF \E i \in 1..Len(set) : set[i] = x THEN set ELSE Append(set, x)

\* a filter that counts position from 1
RECURSIVE FilterOutFromOne(_, _, _)
FilterOutFromOne(list, position, i) ==
  IF i > Len(list) THEN <<>>
  ELSE (IF i # position THEN <<list[i]>> ELSE <<>>)
       \o FilterOutFromOne(list, position, i + 1)

\* exceptions.filter((_, i) => i !== position), position counted from 0
RECURSIVE FilterOut(_, _, _)
FilterOut(list, position, i) ==
  IF i > Len(list) THEN <<>>
  ELSE (IF i - 1 # position THEN <<list[i]>> ELSE <<>>)
       \o FilterOut(list, position, i + 1)

\* handled after a handler returned: a value that is truthy and not the error
HandledIfTruthy(handled, handlerReturned, error) ==
  handled \/ (handlerReturned # error /\ Truthy(handlerReturned))

\* handled after a handler returned (lines 280-281)
HandledAfter(handled, handlerReturned, error) ==
  handled \/ handlerReturned # error

\* the loops of processHandlers run from the handler at position hi of the
\* list hs of category number ci to the next handler to await, or to the end;
\* scan collects the categories the outer loop passes
RECURSIVE Seek(_, _, _, _, _, _, _)
Seek(set, map, exceptionType, ci, hs, hi, scan) ==
  IF hi <= Len(hs)
  THEN [done |-> FALSE, ci |-> ci, hs |-> hs, hi |-> hi, scan |-> scan]
  ELSE IF ci + 1 > Len(set)
  THEN [done |-> TRUE, ci |-> ci, hs |-> <<>>, hi |-> 1, scan |-> scan]
  ELSE LET c == set[ci + 1]
           m == Matches(c, exceptionType)
           list == IF m THEN exceptionHandlers(map, c) ELSE <<>>
       IN Seek(set, map, exceptionType, ci + 1, list, 1,
               Append(scan, [category |-> c, matched |-> m, handlers |-> list]))

\* an inner loop that reads the list of its category anew at every step
IteratedListLive(map, category, hs) == exceptionHandlers(map, category)

\* the array the inner loop iterates (lines 276, 278): the one line 276 read
\* when the loop started; handleException, handleExceptionFirstly and
\* removeExceptionHandler store new arrays and leave this one as it is
IteratedList(map, category, hs) == hs

\* the promise of processHandlers after the loops have ended (line 288)
AfterLoops(promise, handled, error) ==
  IF ~handled /\ promise.state = "pending"
  THEN [state |-> "rejected", value |-> error]
  ELSE promise

\* resolve(handlerReturned) of line 282
AfterReturn(promise, handlerReturned, error) ==
  IF handlerReturned # error /\ Truthy(handlerReturned) /\ promise.state = "pending"
  THEN [state |-> "resolved", value |-> handlerReturned]
  ELSE promise

PendingPromise == [state |-> "pending"]
NotReturned == [t |-> "pending"]

IdleCall ==
  [pc |-> "idle", error |-> Undef, exceptionType |-> "", ci |-> 0, hs |-> <<>>,
   hi |-> 1, scan |-> <<>>, handled |-> FALSE, invoked |-> <<>>,
   promise |-> PendingPromise]

\* the array [exceptionType, position] returned for a handler; fresh until
\* a handler of that exception type is removed
Handle(exceptionType, position, handler) ==
  [exceptionType |-> exceptionType, position |-> position, handler |-> handler,
   fresh |-> TRUE]

NoHandlerCall == [op |-> "none"]

\* lastCall: the most recent call that registered or removed a handler;
\* quiet: an API call was made and no handler was registered or removed since
NoHandles == [issued |-> <<>>, lastCall |-> NoHandlerCall, quiet |-> FALSE]

HandlersIdle ==
  /\ handlersExceptions = <<>>
  /\ handlers = <<>>
  /\ handlerCalls = 0
  /\ handles = NoHandles
  /\ call = IdleCall
  /\ other = IdleCall

----------------------------------------------------------------------------
(***************************************************************************)
(* The composer stack.  A Composer (package middleware-io) is modelled by  *)
(* its pipeline; a middleware by its name and by whether it calls next.    *)
(***************************************************************************)
ComposerNames == {"message", "event"}
Middlewares == [id : {"a", "b", "c"}, callsNext : BOOLEAN]
Stacks == {<<>>} \cup {<<w>> : w \in {w \in Middlewares : w.id = "c"}}

\* Composer.use: the middleware goes to the end of the pipeline
ComposerUse(pipeline, middleware) == Append(pipeline, middleware)

\* the result of noopNext and the result of a middleware that returns
NoopResult == "noopNext"
ResultOf(middleware) == middleware.id

\* Composer.compose()(context, noopNext): a middleware that calls next hands
\* on to the following one and returns what that returns, the last one hands
\* on to noopNext; a middleware that does not call next ends the chain
RECURSIVE RunChain(_, _)
RunChain(pipeline, i) ==
  IF i > Len(pipeline) THEN [invoked |-> <<>>, result |-> NoopResult]
  ELSE IF pipeline[i].callsNext
  THEN LET rest == RunChain(pipeline, i + 1)
       IN [invoked |-> <<pipeline[i]>> \o rest.invoked, result |-> rest.result]
  ELSE [invoked |-> <<pipeline[i]>>, result |-> ResultOf(pipeline[i])]

\* a check that never finds a composer
hasComposerNever(stack, composerName) == FALSE

\* VK.hasComposer: getComposer(composerName) !== undefined
hasComposer(stack, composerName) == composerName \in DOMAIN stack

\* for (let middleware of stack) composer.use(middleware)
RECURSIVE UseEach(_, _, _)
UseEach(pipeline, stack, i) ==
  IF i > Len(stack) THEN pipeline
  ELSE UseEach(ComposerUse(pipeline, stack[i]), stack, i + 1)

\* VK.addComposer(composerName, stack): the map it leaves
addComposer(map, composerName, stack) ==
  IF ~hasComposer(map, composerName)
  THEN MapSet(map, composerName, UseEach(<<>>, stack, 1))
  ELSE map

\* a first use that creates the composer without the middleware
FirstUseStackEmpty(middleware) == <<>>

\* line 342: the stack [middleware] of the composer a first use creates
FirstUseStack(middleware) == <<middleware>>

\* VK.use(composerName, middleware): the map it leaves
use(map, composerName, middleware) ==
  IF hasComposer(map, composerName)
  THEN MapSet(map, composerName, ComposerUse(map[composerName], middleware))
  ELSE addComposer(map, composerName, FirstUseStack(middleware))

\* VK.compose(composerName, context)
compose(map, composerName) ==
  IF ~hasComposer(map, composerName)
  THEN [thrown |-> TRUE, invoked |-> <<>>, result |-> "Error"]
  ELSE LET run == RunChain(map[composerName], 1)
       IN [thrown |-> FALSE, invoked |-> run.invoked, result |-> run.result]

NoComposerLog == [created |-> 0, seeded |-> <<>>, appended |-> <<>>]

ComposersIdle ==
  /\ composersStack = <<>>
  /\ composerLog = [n \in ComposerNames |-> NoComposerLog]
  /\ lastComposer = [op |-> "none"]

----------------------------------------------------------------------------
(***************************************************************************)
(* The plugin registry as a state machine.                                 *)
(***************************************************************************)
NotClassified == [kind |-> "none"]

\* no response is under classification
ClassifierIdle ==
  /\ errors = DefaultErrors
  /\ res = Obj(<<>>)
  /\ outcome = NotClassified

\* the registry of a VK object no plugin was registered with
RegistryIdle ==
  /\ pluginsQueue = <<>>
  /\ pluginsQueueNames = <<>>
  /\ plugins = <<>>
  /\ queuePromises = <<>>
  /\ enables = <<>>
  /\ setups = <<>>
  /\ last = [op |-> "none"]

NoCall == [op |-> "none"]
SetupCall(globalPluginOptions, reg) ==
  [op |-> "setup", overrides |-> globalPluginOptions, before |-> reg]
SettleCall == [op |-> "settle"]

\* the constructor: field initialisers, then installDefaultsPlugins, which
\* extends the Storage and the Auth class (deferred, no options); extend is
\* async, so an Error it throws does not stop the constructor
InitPlugins ==
  \E Storage \in {c \in PluginClasses : c.name = "storage"},
     Auth \in {c \in PluginClasses : c.name = "auth"} :
    LET r1 == extend(EmptyRegistry, Storage, NoOptions, TRUE).reg
        r2 == extend(r1, Auth, NoOptions, TRUE).reg
    IN /\ pluginsQueue = r2.queue
       /\ pluginsQueueNames = r2.names
       /\ plugins = r2.plugins
       /\ queuePromises = r2.queuePromises
       /\ enables = r2.enables
       /\ setups = <<>>
       /\ last = NoCall
       /\ ClassifierIdle
       /\ HandlersIdle
       /\ ComposersIdle

Extend(plugIn, pluginOptions, addInQueue) ==
  /\ Len(pluginsQueue) < MaxQueue
  /\ Len(enables) < MaxEnables
  /\ \E out \in {extend(CurrentRegistry, plugIn, pluginOptions, addInQueue)} :
        /\ pluginsQueue' = out.reg.queue
        /\ pluginsQueueNames' = out.reg.names
        /\ plugins' = out.reg.plugins
        /\ queuePromises' = out.reg.queuePromises
        /\ enables' = out.reg.enables
        /\ last' = [op |-> "extend", name |-> plugIn.name,
                    setupAfter |-> plugIn.setupAfter, addInQueue |-> addInQueue,
                    requirements |-> plugIn.requirements,
                    options |-> pluginOptions,
                    result |-> out.result, before |-> CurrentRegistry]
  /\ UNCHANGED setups
  /\ UNCHANGED <<classifyVars, handlerVars, composerVars>>

\* VK.setup(globalPluginOptions)
Setup(globalPluginOptions) ==
  /\ Len(setups) < MaxSetups
  /\ Len(enables) + Len(pluginsQueue) <= MaxEnables
  /\ IF Len(pluginsQueue) = 0
     THEN /\ setups' = Append(setups, [awaits |-> <<>>, state |-> "resolved",
                                       tracked |-> Range(queuePromises)])
          /\ UNCHANGED <<plugins, enables>>
     ELSE LET initers == Initers(pluginsQueue, globalPluginOptions, 1)
              ids == [i \in 1..Len(initers) |-> Len(enables) + i]
          IN /\ plugins' = plugins \o QueueNamesOf(pluginsQueue)
             /\ enables' = enables \o initers
             /\ setups' = Append(setups, [awaits |-> ids \o queuePromises,
                                          state |-> "pending",
                                          tracked |-> Range(ids) \cup Range(queuePromises)])
  /\ last' = SetupCall(globalPluginOptions, CurrentRegistry)
  /\ UNCHANGED <<pluginsQueue, pluginsQueueNames, queuePromises>>
  /\ UNCHANGED <<classifyVars, handlerVars, composerVars>>

\* the promise an onEnable invocation returned settles
EnableSettles(i, state) ==
  /\ i \in 1..Len(enables)
  /\ enables[i].state = "pending"
  /\ enables' = [enables EXCEPT ![i].state = state]
  /\ last' = SettleCall
  /\ UNCHANGED <<pluginsQueue, pluginsQueueNames, plugins, queuePromises, setups>>
  /\ UNCHANGED <<classifyVars, handlerVars, composerVars>>

\* Promise.all(...).then(() => this) of a setup call settles
PromiseAllState(awaits) ==
  IF \E j \in 1..Len(awaits) : enables[awaits[j]].state = "rejected" THEN "rejected"
  ELSE IF \A j \in 1..Len(awaits) : enables[awaits[j]].state = "resolved" THEN "resolved"
  ELSE "pending"

SetupSettles(s) ==
  /\ s \in 1..Len(setups)
  /\ setups[s].state = "pending"
  /\ PromiseAllState(setups[s].awaits) # "pending"
  /\ setups' = [setups EXCEPT ![s].state = PromiseAllState(setups[s].awaits)]
  /\ last' = SettleCall
  /\ UNCHANGED <<pluginsQueue, pluginsQueueNames, plugins, queuePromises, enables>>
  /\ UNCHANGED <<classifyVars, handlerVars, composerVars>>

\* register calls only, over every plugin class
NextRegistry ==
  \E c \in PluginClasses, q \in BOOLEAN : Extend(c, NoOptions, q)

SpecRegistry == InitPlugins /\ [][NextRegistry]_vars

\* register, commit and the settling of the promises, over the plugin classes
\* without requirements and setupAfter
PlainClasses ==
  {c \in PluginClasses : c.name \in PluginNames /\ c.requirements = {}
                           /\ c.setupAfter = Undefined}

NextPlugins ==
  \/ \E c \in PlainClasses, q \in BOOLEAN : Extend(c, NoOptions, q)
  \/ \E n \in PluginNames, o \in GlobalOverrides :
       Setup([m \in PluginNames |-> IF m = n THEN o ELSE NoOptions])
  \/ \E i \in 1..MaxEnables, state \in {"resolved", "rejected"} : EnableSettles(i, state)
  \/ \E s \in 1..MaxSetups : SetupSettles(s)

SpecPlugins == InitPlugins /\ [][NextPlugins]_vars

\* register with options and commit with overrides, over the classes of the
\* two default plugins without requirements
OptionClasses ==
  {c \in PluginClasses : /\ c.name \in {"storage", "auth"}
                          /\ c.requirements = {}
                          /\ c.setupAfter \in {Undefined, "storage", "auth"}}

NextCommit ==
  \/ \E c \in OptionClasses, o \in PluginOptions, q \in BOOLEAN : Extend(c, o, q)
  \/ \E n \in PluginNames, o \in GlobalOverrides :
       Setup([m \in PluginNames |-> IF m = n THEN o ELSE NoOptions])

SpecCommit == InitPlugins /\ [][NextCommit]_vars

\* register, commit and the settling of every promise, over the classes of
\* the two default plugins without requirements, setupAfter and options
SettleClasses == {c \in PlainClasses : c.name \in {"storage", "auth"}}

NextSettle ==
  \/ \E c \in SettleClasses, q \in BOOLEAN : Extend(c, NoOptions, q)
  \/ Setup([m \in PluginNames |-> NoOptions])
  \/ \E i \in 1..Len(enables), state \in {"resolved", "rejected"} :
       EnableSettles(i, state)
  \/ \E s \in 1..Len(setups) : SetupSettles(s)

SpecSettle == InitPlugins /\ [][NextSettle]_vars

----------------------------------------------------------------------------
(***************************************************************************)
(* The response classification applied to one response.                    *)
(***************************************************************************)
InitClassify ==
  /\ errors \in ErrorsOptions
  /\ res \in Bodies
  /\ outcome = NotClassified
  /\ RegistryIdle
  /\ HandlersIdle
  /\ ComposersIdle

Classify ==
  /\ outcome = NotClassified
  /\ outcome' = createResponse(errors, res)
  /\ UNCHANGED <<errors, res>>
  /\ UNCHANGED <<pluginVars, handlerVars, composerVars>>

NextClassify == Classify

SpecClassify == InitClassify /\ [][NextClassify]_vars

----------------------------------------------------------------------------
(***************************************************************************)
(* One API call, the handlers that are registered and removed meanwhile,  *)
(* and the handlers' answers.                                              *)
(***************************************************************************)
HandlerIds == {"h1", "h2"}
HandledTypes == {"Error", "APIException", "CaptchaException"}

\* what a handler may return: the error it was given, truthy values, falsy
\* values
OtherReturns == {Str("v1"), Str("v2"), Undef}

\* the bodies the transport answers with
ApiBodies ==
  {Obj(Fields({<<"response", Str("payload")>>})),
   Obj(Fields({<<"error", Obj(Fields({<<"error_code", Num("14")>>,
                                      <<"error_msg", Str("em")>>,
                                      <<"captcha_sid", Str("2")>>,
                                      <<"captcha_img", Str("img2")>>}))>>})),
   Obj(Fields({<<"error", Obj(Fields({<<"error_code", Num("5")>>,
                                      <<"error_msg", Str("em")>>}))>>})),
   Str("not json")}

InitApi ==
  /\ HandlersIdle
  /\ ClassifierIdle
  /\ RegistryIdle
  /\ ComposersIdle

\* VK.handleException(exceptionType, handler)
HandleException(exceptionType, handler) ==
  /\ call.pc # "finished"
  /\ handlerCalls < MaxHandlerCalls
  /\ handlerCalls' = handlerCalls + 1
  /\ handlersExceptions' = SetAdd(handlersExceptions, exceptionType)
  /\ handlers' = MapSet(handlers, exceptionType,
                         exceptionHandlers(handlers, exceptionType) \o <<handler>>)
  /\ handles' = [handles EXCEPT
                   !.issued = Append(@, Handle(exceptionType,
                                               Len(handlers'[exceptionType]) - 1,
                                               handler)),
                   !.lastCall = [op |-> "handleException",
                                 exceptionType |-> exceptionType,
                                 handler |-> handler,
                                 was |-> handlers, now |-> handlers'],
                   !.quiet = FALSE]
  /\ UNCHANGED <<call, other, classifyVars, pluginVars, composerVars>>

\* VK.handleExceptionFirstly(exceptionType, handler)
HandleExceptionFirstly(exceptionType, handler) ==
  /\ call.pc # "finished"
  /\ handlerCalls < MaxHandlerCalls
  /\ handlerCalls' = handlerCalls + 1
  /\ handlersExceptions' = SetAdd(handlersExceptions, exceptionType)
  /\ handlers' = MapSet(handlers, exceptionType,
                         <<handler>> \o exceptionHandlers(handlers, exceptionType))
  /\ handles' = [handles EXCEPT
                   !.issued = Append(@, Handle(exceptionType, 0, handler)),
                   !.lastCall = [op |-> "handleExceptionFirstly",
                                 exceptionType |-> exceptionType,
                                 handler |-> handler,
                                 was |-> handlers, now |-> handlers'],
                   !.quiet = FALSE]
  /\ UNCHANGED <<call, other, classifyVars, pluginVars, composerVars>>

\* VK.removeExceptionHandler(exceptionPosition), with an array that
\* handleException or handleExceptionFirstly has returned
RemoveExceptionHandler(exceptionPosition) ==
  /\ call.pc # "finished"
  /\ handlerCalls < MaxHandlerCalls
  /\ handlerCalls' = handlerCalls + 1
  /\ LET exceptionType == exceptionPosition.exceptionType
         exceptions == exceptionHandlers(handlers, exceptionType)
     IN /\ handlers' = MapSet(handlers, exceptionType,
                              FilterOut(exceptions, exceptionPosition.position, 1))
        /\ handles' =
             [handles EXCEPT
              !.quiet = FALSE,
              !.issued = [i \in 1..Len(handles.issued) |->
                           IF handles.issued[i].exceptionType = exceptionType
                           THEN [handles.issued[i] EXCEPT !.fresh = FALSE]
                           ELSE handles.issued[i]],
              !.lastCall = [op |-> "removeExceptionHandler",
                            handle |-> exceptionPosition,
                            before |-> exceptions,
                            after |-> handlers'[exceptionType],
                            was |-> handlers, now |-> handlers']]
  /\ UNCHANGED <<handlersExceptions, call, other, classifyVars, pluginVars, composerVars>>

\* the call record when the loops of processHandlers stop at stop; live is
\* the list the registry holds for the category when the handler is invoked
Proceed(c, stop, handled, promise) ==
  IF stop.done
  THEN [c EXCEPT !.pc = "finished", !.ci = stop.ci, !.hs = stop.hs, !.hi = stop.hi,
                 !.scan = stop.scan, !.handled = handled,
                 !.promise = AfterLoops(promise, handled, c.error)]
  ELSE [c EXCEPT !.pc = "awaiting", !.ci = stop.ci, !.hs = stop.hs, !.hi = stop.hi,
                 !.scan = stop.scan, !.handled = handled, !.promise = promise,
                 !.invoked = Append(@, [category |-> handlersExceptions[stop.ci],
                                        ci |-> stop.ci, index |-> stop.hi,
                                        handler |-> stop.hs[stop.hi],
                                        error |-> c.error,
                                        exceptionType |-> c.exceptionType,
                                        live |-> exceptionHandlers(
                                                   handlers, handlersExceptions[stop.ci]),
                                        returned |-> NotReturned])]

\* API.resolveApiRequest once createResponse has ended with result: the
\* payload is returned, or processHandlers(error.constructor, error) runs up
\* to its first await
resolveApiRequest(result) ==
  IF result.kind = "return"
  THEN [IdleCall EXCEPT !.pc = "finished",
                        !.promise = [state |-> "resolved", value |-> result.payload]]
  ELSE LET started == [IdleCall EXCEPT !.error = result,
                                       !.exceptionType = result.type]
       IN Proceed(started,
                  Seek(handlersExceptions, handlers, started.exceptionType,
                       0, <<>>, 1, <<>>),
                  FALSE, PendingPromise)

\* processHandlers of the call c from the await it is suspended at, the
\* handler having returned handlerReturned, up to its next await or its end
processHandlers(c, handlerReturned) ==
  LET altered == handlerReturned # c.error
      handled == HandledAfter(c.handled, handlerReturned, c.error)
      promise == AfterReturn(c.promise, handlerReturned, c.error)
      noted == [c EXCEPT !.invoked[Len(c.invoked)].returned = handlerReturned]
      stop == IF altered
              THEN Seek(handlersExceptions, handlers, c.exceptionType,
                        c.ci, <<>>, 1, c.scan)
              ELSE Seek(handlersExceptions, handlers, c.exceptionType, c.ci,
                        IteratedList(handlers, handlersExceptions[c.ci], c.hs),
                        c.hi + 1, c.scan)
  IN Proceed(noted, stop, handled, promise)

\* API.resolveApiRequest: the transport answers with body; createResponse
\* returns the payload, or throws and processHandlers(error.constructor, error)
\* runs up to its first await
ApiCall(body) ==
  /\ call.pc = "idle"
  /\ res' = body
  /\ outcome' = createResponse(errors, body)
  /\ call' = resolveApiRequest(outcome')
  /\ handles' = [handles EXCEPT !.quiet = TRUE]
  /\ UNCHANGED <<errors, handlersExceptions, handlers, handlerCalls, other,
                 pluginVars, composerVars>>

\* the awaited handler returns handlerReturned; processHandlers runs up to
\* its next await or to its end
HandlerReturns(handlerReturned) ==
  /\ call.pc = "awaiting"
  /\ call' = processHandlers(call, handlerReturned)
  /\ UNCHANGED <<handlersExceptions, handlers, handlerCalls, handles, other,
                 classifyVars, pluginVars, composerVars>>

NextApi ==
  \/ \E c \in HandledTypes, h \in HandlerIds : HandleException(c, h)
  \/ \E c \in HandledTypes, h \in HandlerIds : HandleExceptionFirstly(c, h)
  \/ \E i \in 1..Len(handles.issued) : RemoveExceptionHandler(handles.issued[i])
  \/ \E b \in ApiBodies : ApiCall(b)
  \/ \E r \in OtherReturns \cup {call.error} : HandlerReturns(r)

SpecApi == InitApi /\ [][NextApi]_vars

----------------------------------------------------------------------------
(***************************************************************************)
(* Two API calls in flight at once.  Every invocation of processHandlers   *)
(* has its own handled flag, loop positions and promise; the registry is   *)
(* shared and may be written while either call is suspended at its await.  *)
(***************************************************************************)
\* the handlers registered: two for the class of the failure, one for its
\* base class
ConcurrentHandlers ==
  {<<"APIException", "h1">>, <<"APIException", "h2">>, <<"Error", "h1">>}
ConcurrentBodies ==
  {Obj(Fields({<<"error", Obj(Fields({<<"error_code", Num("5")>>,
                                      <<"error_msg", Str("em")>>}))>>}))}

\* API.resolveApiRequest of the second call, made while the first call is
\* suspended in a handler
ConcurrentApiCall(body) ==
  /\ call.pc = "awaiting"
  /\ other.pc = "idle"
  /\ other' = resolveApiRequest(createResponse(errors, body))
  /\ handles' = [handles EXCEPT !.quiet = TRUE]
  /\ UNCHANGED <<handlersExceptions, handlers, handlerCalls, call, classifyVars,
                 pluginVars, composerVars>>

\* the handler the second call awaits returns handlerReturned; its handlers
\* hand the error on, so that it runs every list it starts on to the end
ConcurrentHandlerReturns(handlerReturned) ==
  /\ other.pc = "awaiting"
  /\ other' = processHandlers(other, handlerReturned)
  /\ UNCHANGED <<handlersExceptions, handlers, handlerCalls, handles, call,
                 classifyVars, pluginVars, composerVars>>

NextConcurrent ==
  \/ \E h \in ConcurrentHandlers : HandleException(h[1], h[2])
  \/ \E h \in ConcurrentHandlers : HandleExceptionFirstly(h[1], h[2])
  \/ \E i \in 1..Len(handles.issued) : RemoveExceptionHandler(handles.issued[i])
  \/ \E b \in ConcurrentBodies : ApiCall(b)
  \/ \E b \in ConcurrentBodies : ConcurrentApiCall(b)
  \/ \E r \in {Undef, call.error} : HandlerReturns(r)
  \/ ConcurrentHandlerReturns(other.error)

SpecConcurrent == InitApi /\ [][NextConcurrent]_vars

----------------------------------------------------------------------------
(***************************************************************************)
(* The composer stack as a state machine.                                  *)
(***************************************************************************)
InitComposer ==
  /\ ComposersIdle
  /\ HandlersIdle
  /\ ClassifierIdle
  /\ RegistryIdle

\* the middlewares in all pipelines
RECURSIVE TotalMiddlewares(_, _)
TotalMiddlewares(map, names) ==
  IF names = {} THEN 0
  ELSE LET n == CHOOSE x \in names : TRUE
       IN Len(map[n]) + TotalMiddlewares(map, names \ {n})

\* VK.addComposer(composerName, stack)
AddComposer(composerName, stack) ==
  /\ TotalMiddlewares(composersStack, DOMAIN composersStack) + Len(stack)
       <= MaxMiddlewares
  /\ composersStack' = addComposer(composersStack, composerName, stack)
  /\ composerLog' =
       IF composerName \in DOMAIN composersStack'
            /\ composerName \in DOMAIN composersStack
            /\ composersStack'[composerName] = composersStack[composerName]
       THEN composerLog
       ELSE [composerLog EXCEPT ![composerName].created = @ + 1,
                                ![composerName].seeded = stack]
  /\ lastComposer' = [op |-> "addComposer", name |-> composerName,
                      before |-> composersStack]
  /\ UNCHANGED <<pluginVars, classifyVars, handlerVars>>

\* VK.use(composerName, middleware)
Use(composerName, middleware) ==
  /\ TotalMiddlewares(composersStack, DOMAIN composersStack) < MaxMiddlewares
  /\ composersStack' = use(composersStack, composerName, middleware)
  /\ composerLog' =
       IF composerName \in DOMAIN composersStack
       THEN [composerLog EXCEPT ![composerName].appended = Append(@, middleware)]
       ELSE [composerLog EXCEPT ![composerName].created = @ + 1,
                                ![composerName].appended = Append(@, middleware)]
  /\ lastComposer' = [op |-> "use", name |-> composerName,
                      before |-> composersStack]
  /\ UNCHANGED <<pluginVars, classifyVars, handlerVars>>

\* VK.compose(composerName, context)
Compose(composerName) ==
  /\ lastComposer' = [op |-> "compose", name |-> composerName,
                      before |-> composersStack,
                      run |-> compose(composersStack, composerName)]
  /\ UNCHANGED <<composersStack, composerLog>>
  /\ UNCHANGED <<pluginVars, classifyVars, handlerVars>>

NextComposer ==
  \/ \E n \in ComposerNames, stack \in Stacks : AddComposer(n, stack)
  \/ \E n \in ComposerNames, w \in Middlewares : Use(n, w)
  \/ \E n \in ComposerNames : Compose(n)

SpecComposer == InitComposer /\ [][NextComposer]_vars

----------------------------------------------------------------------------
(***************************************************************************)
(* Properties of the plugin registry.                                      *)
(***************************************************************************)
\* what the last extend call found before it ran
LastInstalled(n) == hasPlugin(last.before.plugins, n)
LastQueued(n) == \E i \in 1..Len(last.before.queue) : last.before.queue[i].name = n
LastUnchanged == CurrentRegistry = last.before

Occurrences(s, x) == Cardinality({i \in 1..Len(s) : s[i] = x})

RemoveAt(s, i) == SubSeq(s, 1, i - 1) \o SubSeq(s, i + 1, Len(s))

\* first position of a plugin name in a queue, 0 when it is not queued
PositionInQueue(queue, n) ==
  IF \E i \in 1..Len(queue) : queue[i].name = n
  THEN CHOOSE i \in 1..Len(queue) :
         queue[i].name = n /\ \A j \in 1..(i - 1) : queue[j].name # n
  ELSE 0

\* C1: an extend call whose plugin name is already installed or already
\* queued throws a registration error and changes neither the queue, the
\* queued names, the installed list nor the tracked enable results; so no
\* name occurs twice in queue plus installed list.
C1_DuplicateNameRejected ==
  /\ (last.op = "extend" /\ (LastInstalled(last.name) \/ LastQueued(last.name)))
       => /\ last.result \in {"UniqueNameError", "AlreadyInstalledError"}
          /\ LastUnchanged
  /\ \A n \in PluginNames :
       Occurrences(QueueNamesOf(pluginsQueue) \o plugins, n) <= 1

\* C2: an extend call that got past the name checks throws the requirement
\* error and changes nothing when some required name is neither installed
\* nor queued, and succeeds when every required name is installed or queued,
\* enabled or not.
C2_RequirementsInstalledOrQueued ==
  (/\ last.op = "extend"
   /\ last.name \notin {"", "defaultPlugin"}
   /\ ~LastInstalled(last.name))
  => IF \E r \in last.requirements : ~LastInstalled(r) /\ ~LastQueued(r)
     THEN last.result = "RequiresError" /\ LastUnchanged
     ELSE last.result = "ok"

\* C2 witness: an extend succeeded whose requirement was queued and not
\* installed, so not enabled
C2_Witness ==
  /\ last.op = "extend"
  /\ last.result = "ok"
  /\ \E r \in last.requirements : LastQueued(r) /\ ~LastInstalled(r)

\* C3: a deferred extend of P whose setupAfter names X, queued at position i,
\* leaves P at position i and X at position i+1, keeps the order of the other
\* queued plugins and queues P once; when X is not queued P is appended.
C3_SetupAfterPlacement ==
  (/\ last.op = "extend"
   /\ last.addInQueue
   /\ last.result = "ok"
   /\ last.setupAfter # Undefined)
  => LET i == PositionInQueue(last.before.queue, last.setupAfter)
     IN IF i # 0
        THEN /\ Len(pluginsQueue) = Len(last.before.queue) + 1
             /\ pluginsQueue[i].name = last.name
             /\ pluginsQueue[i + 1].name = last.setupAfter
             /\ RemoveAt(pluginsQueue, i) = last.before.queue
             /\ Occurrences(QueueNamesOf(pluginsQueue), last.name) = 1
        ELSE /\ Len(pluginsQueue) = Len(last.before.queue) + 1
             /\ pluginsQueue[Len(pluginsQueue)].name = last.name
             /\ RemoveAt(pluginsQueue, Len(pluginsQueue)) = last.before.queue

----------------------------------------------------------------------------
(***************************************************************************)
(* Properties of the response classification.                              *)
(***************************************************************************)
\* C5: a body whose top-level error equals the captcha sentinel and that
\* carries captcha_sid and captcha_img is thrown as a CaptchaException whose
\* captchaSid is the body's captcha_sid and whose captchaImg is the body's
\* captcha_img.
C5_CaptchaCarriesBodySid ==
  (/\ outcome # NotClassified
   /\ StrictEquals(Get(res, "error"), errors.captchaError)
   /\ Get(res, "captcha_sid") # Undef
   /\ Get(res, "captcha_img") # Undef)
  => /\ outcome.kind = "throw"
     /\ outcome.type = "CaptchaException"
     /\ outcome.data.captchaSid = Get(res, "captcha_sid")
     /\ outcome.data.captchaImg = Get(res, "captcha_img")

\* C6: a body whose nested error object has the redirect code as error_code
\* and a redirect_uri, and that matches neither the captcha nor the
\* validation rule, is thrown as a RedirectURIException whose redirectUri is
\* that nested redirect_uri.
C6_RedirectCarriesNestedUri ==
  (/\ outcome # NotClassified
   /\ StrictEquals(Get(Get(res, "error"), "error_code"), errors.redirectErrorCode)
   /\ Get(Get(res, "error"), "redirect_uri") # Undef
   /\ ~StrictEquals(Get(res, "error"), errors.captchaError)
   /\ ~StrictEquals(Get(Get(res, "error"), "error_code"), errors.captchaErrorCode)
   /\ ~StrictEquals(Get(res, "error"), errors.validationError))
  => /\ outcome.kind = "throw"
     /\ outcome.type = "RedirectURIException"
     /\ outcome.data.redirectUri = Get(Get(res, "error"), "redirect_uri")

----------------------------------------------------------------------------
(***************************************************************************)
(* Properties of processHandlers and of the API call that awaits it.       *)
(***************************************************************************)
\* the i-th handler processHandlers invoked has returned something that is
\* not the error it was given
Altered(i) == call.invoked[i].returned \notin {NotReturned, call.error}

SomeAltered == \E i \in 1..Len(call.invoked) : Altered(i)

FirstAltered ==
  CHOOSE i \in 1..Len(call.invoked) :
    Altered(i) /\ \A j \in 1..(i - 1) : ~Altered(j)

\* C7: once a handler has returned a value that is not the error, no further
\* handler is invoked for this error, in the same category or in any other
\* matching one, and the value processHandlers resolves with is that
\* handler's return value.
C7_ResolutionStopsAtFirstHandled ==
  \A i \in 1..Len(call.invoked) :
    Altered(i)
      => /\ i = Len(call.invoked)
         /\ call.promise.state = "resolved"
              => call.promise.value = call.invoked[i].returned

\* C8: when a handler returns a value v that is not the error (and not an
\* error), the API call completes successfully with v, for truthy and for
\* falsy v.
C8_HandlerValueCompletesCall ==
  (call.pc = "finished" /\ SomeAltered)
    => /\ call.promise.state = "resolved"
       /\ call.promise.value = call.invoked[FirstAltered].returned

\* C9: a failure createResponse throws is handed to processHandlers with its
\* own class before the call settles; when no invoked handler returns anything
\* but the error (also when no category matches or no handler is registered)
\* the call rejects with that same error, and when some handler returns
\* something else the call never rejects.
C9_OnlyUnrecoveredFailureRejects ==
  /\ outcome.kind = "throw"
       => call.error = outcome /\ call.exceptionType = outcome.type
  /\ (call.pc = "finished" /\ outcome.kind = "throw" /\ ~SomeAltered)
       => call.promise = [state |-> "rejected", value |-> outcome]
  /\ SomeAltered => call.promise.state # "rejected"
  /\ call.promise.state = "rejected"
       => outcome.kind = "throw" /\ call.promise.value = outcome

\* C9 witness: handlers were invoked, each returned the error, and the call
\* has rejected with it
C9_Witness ==
  /\ call.pc = "finished"
  /\ Len(call.invoked) >= 1
  /\ call.promise = [state |-> "rejected", value |-> outcome]

\* the handler at position j of the list of category number k was invoked
InvokedAt(k, j) ==
  \E i \in 1..Len(call.invoked) :
    call.invoked[i].ci = k /\ call.invoked[i].index = j

\* a handler invoked before that one has handled the error
HandledBefore(k, j) ==
  \E i \in 1..Len(call.invoked) :
    /\ Altered(i)
    /\ \/ call.invoked[i].ci < k
       \/ call.invoked[i].ci = k /\ call.invoked[i].index < j

\* C10: processHandlers(T, error) takes a registered category as matching
\* exactly when it is T or a class T extends, directly or not; it invokes
\* handlers of matching categories only, and it invokes every handler of a
\* matching category unless an earlier handler has handled the error.
C10_MatchesTypeAndAncestors ==
  /\ \A k \in 1..Len(call.scan) :
       /\ call.scan[k].category = handlersExceptions[k]
       /\ call.scan[k].matched
            <=> \/ call.scan[k].category = call.exceptionType
                \/ call.scan[k].category \in PrototypeChain(call.exceptionType)
  /\ \A i \in 1..Len(call.invoked) :
       LET e == call.invoked[i]
       IN /\ call.scan[e.ci].matched
          /\ e.category = call.scan[e.ci].category
          /\ e.handler = call.scan[e.ci].handlers[e.index]
          /\ e.exceptionType = call.exceptionType
  /\ call.pc = "finished" /\ outcome.kind = "throw"
       => /\ Len(call.scan) = Len(handlersExceptions)
          /\ \A k \in 1..Len(call.scan) :
               \A j \in 1..Len(call.scan[k].handlers) :
                 InvokedAt(k, j) \/ HandledBefore(k, j)

\* C10 witness: the error is a CaptchaException and a handler registered for
\* the class it extends, APIException, was invoked and has returned
C10_Witness ==
  /\ call.exceptionType = "CaptchaException"
  /\ \E i \in 1..Len(call.invoked) :
       /\ call.invoked[i].category = "APIException"
       /\ call.invoked[i].returned # NotReturned

----------------------------------------------------------------------------
(***************************************************************************)
(* Properties of the response classification.                              *)
(***************************************************************************)
\* the top-level error marker of the body and the code of a nested error
Marker == Get(res, "error")
NestedCode == Get(Marker, "error_code")

IsError == outcome # NotClassified /\ res.t = "object" /\ Truthy(Marker)

CaptchaMatches == Marker = errors.captchaError \/ NestedCode = errors.captchaErrorCode
ValidationMatches == Marker = errors.validationError
RedirectMatches == NestedCode = errors.redirectErrorCode

\* the category the priority list gives the body: the first rule that matches
FirstMatchingRule ==
  IF CaptchaMatches THEN "CaptchaException"
  ELSE IF ValidationMatches
  THEN IF Get(res, "ban_info") # Undef THEN "HaveBanException"
       ELSE IF Get(res, "validation_type") # Undef THEN "TwoFactorException"
       ELSE "NeedValidationException"
  ELSE IF RedirectMatches THEN "RedirectURIException"
  ELSE "APIException"

\* C11: a body with an error marker is thrown as exactly one exception, the
\* one of the first rule that matches in the order captcha, validation (ban
\* info, then validation type, then the bare one), redirect, generic; for
\* every configuration of the sentinels and codes.
C11_FirstMatchingRuleWins ==
  IsError => outcome.kind = "throw" /\ outcome.type = FirstMatchingRule

\* C11 witness: the captcha and the redirect code are configured alike, the
\* body matches both rules and is thrown as a CaptchaException
C11_Witness ==
  /\ IsError
  /\ CaptchaMatches /\ RedirectMatches
  /\ outcome.kind = "throw" /\ outcome.type = "CaptchaException"

\* C12: a body that is not structured data (a string, a number, a boolean,
\* null) is thrown as a RequestParseException, never returned as a payload
\* and never thrown as another error.
C12_UnstructuredBodyIsMalformed ==
  (outcome # NotClassified /\ res.t # "object")
  => outcome.kind = "throw" /\ outcome.type = "RequestParseException"

\* C13: a structured body without error marker is returned as its nested
\* response field whenever it has that field, whatever the value, and as
\* the whole body only when it has none.
C13_NestedResultPreferred ==
  (outcome # NotClassified /\ res.t = "object" /\ Marker = Undef)
  => /\ outcome.kind = "return"
     /\ outcome.payload =
          IF "response" \in DOMAIN res.f THEN res.f["response"] ELSE res

----------------------------------------------------------------------------
(***************************************************************************)
(* Properties of register and commit.                                      *)
(***************************************************************************)
LastExtendOk(addInQueue) ==
  last.op = "extend" /\ last.result = "ok" /\ last.addInQueue = addInQueue

\* the onEnable invocations a setup call made
EnabledBySetup == {i \in 1..Len(enables) : enables[i].by = "setup"}

\* C14: a deferred extend that succeeds invokes no onEnable and leaves the
\* installed list and queuePromises as they were; its plugin is in the
\* queue afterwards, and onEnable invocations for queued plugins are made
\* by setup calls only.
C14_DeferredOnlyQueues ==
  /\ LastExtendOk(TRUE)
       => /\ enables = last.before.enables
          /\ plugins = last.before.plugins
          /\ queuePromises = last.before.queuePromises
          /\ \E i \in 1..Len(pluginsQueue) : pluginsQueue[i].name = last.name
  /\ Len(enables) = Len(queuePromises) + Cardinality(EnabledBySetup)
  /\ setups = <<>> => EnabledBySetup = {}

\* C14 witness: a deferred extend has put its plugin at the end of the queue
C14_Witness ==
  /\ LastExtendOk(TRUE)
  /\ Len(pluginsQueue) = Len(last.before.queue) + 1
  /\ pluginsQueue[Len(pluginsQueue)] = [name |-> last.name, options |-> last.options]

\* C15: an immediate extend that succeeds appends the name to the installed
\* list, invokes onEnable once with the options it was given, appends that
\* pending promise to queuePromises and leaves the queue and the queued
\* names as they were, with or without setupAfter.
C15_ImmediateInstallsOnce ==
  LastExtendOk(FALSE)
  => /\ plugins = Append(last.before.plugins, last.name)
     /\ enables = Append(last.before.enables,
                         [name |-> last.name, options |-> last.options,
                          by |-> "extend", state |-> "pending"])
     /\ queuePromises = Append(last.before.queuePromises, Len(enables))
     /\ pluginsQueue = last.before.queue
     /\ pluginsQueueNames = last.before.names

\* C15 witness: an immediate extend of a plugin that declares setupAfter,
\* with options, has succeeded
C15_Witness ==
  /\ LastExtendOk(FALSE)
  /\ last.setupAfter # Undefined
  /\ last.options # NoOptions

\* the options setup has to hand to the onEnable of a queued descriptor
OverriddenOptions(w) ==
  [k \in OptKeys |-> IF last.overrides[w.name][k] = "unset"
                      THEN w.options[k] ELSE last.overrides[w.name][k]]

\* C16: a setup call on a non-empty queue appends the queued names to the
\* installed list front to back and invokes onEnable for the queued
\* descriptors in that order, each with its registration options overridden
\* by globalPluginOptions[name]; when it returns every invocation has been
\* started, none has been waited for, and its promise waits for all of them.
C16_SetupEnablesInQueueOrder ==
  (last.op = "setup" /\ Len(last.before.queue) > 0)
  => LET queue == last.before.queue
         base == Len(last.before.enables)
     IN /\ plugins = last.before.plugins \o [i \in 1..Len(queue) |-> queue[i].name]
        /\ Len(enables) = base + Len(queue)
        /\ SubSeq(enables, 1, base) = last.before.enables
        /\ \A i \in 1..Len(queue) :
             enables[base + i] = [name |-> queue[i].name,
                                  options |-> OverriddenOptions(queue[i]),
                                  by |-> "setup", state |-> "pending"]
        /\ setups[Len(setups)].state = "pending"
        /\ (base + 1)..(base + Len(queue)) \subseteq Range(setups[Len(setups)].awaits)

\* C16 witness: a setup call has enabled two queued descriptors, one of them
\* registered with an option that the call overrides
C16_Witness ==
  /\ last.op = "setup"
  /\ Len(last.before.queue) >= 2
  /\ \E i \in 1..Len(last.before.queue) :
       LET w == last.before.queue[i]
       IN \E k \in OptKeys :
            /\ w.options[k] # "unset"
            /\ last.overrides[w.name][k] \notin {"unset", w.options[k]}

\* C20: over any run of extend and setup calls every registered plugin is
\* enabled and marked installed at most once: setup calls make no more
\* onEnable invocations than there are queued descriptors, and the installed
\* list has no more entries than immediate extends and queued descriptors.
C20_EnabledAtMostOnce ==
  /\ Cardinality(EnabledBySetup) <= Len(pluginsQueue)
  /\ Len(plugins) <= Len(queuePromises) + Len(pluginsQueue)

----------------------------------------------------------------------------
(***************************************************************************)
(* Properties of the composer stack.                                       *)
(***************************************************************************)
\* the middlewares registered for a composer, in registration order
Registered(n) == composerLog[n].seeded \o composerLog[n].appended

\* position of the first middleware that does not call next, 0 if all do
FirstOmitsNext(pipeline) ==
  IF \E i \in 1..Len(pipeline) : ~pipeline[i].callsNext
  THEN CHOOSE i \in 1..Len(pipeline) :
         /\ ~pipeline[i].callsNext
         /\ \A j \in 1..(i - 1) : pipeline[j].callsNext
  ELSE 0

\* C17: compose on an existing composer invokes the registered middlewares
\* in registration order up to and including the first one that does not
\* call next, invokes none after it and returns that one's result.
C17_RunStopsAtFirstWithoutNext ==
  (lastComposer.op = "compose" /\ ~lastComposer.run.thrown)
  => LET pipeline == Registered(lastComposer.name)
         k == FirstOmitsNext(pipeline)
     IN IF k = 0 THEN lastComposer.run.invoked = pipeline
        ELSE /\ lastComposer.run.invoked = SubSeq(pipeline, 1, k)
             /\ lastComposer.run.result = ResultOf(pipeline[k])

\* C17 witness: the pipeline [a, b, c], a calling next and b not, was run:
\* a and b were invoked and the result is b's
C17_Witness ==
  /\ lastComposer.op = "compose"
  /\ ~lastComposer.run.thrown
  /\ LET pipeline == lastComposer.before[lastComposer.name]
     IN /\ Len(pipeline) = 3
        /\ pipeline[1] = [id |-> "a", callsNext |-> TRUE]
        /\ pipeline[2] = [id |-> "b", callsNext |-> FALSE]
        /\ pipeline[3].id = "c"
  /\ lastComposer.run.invoked =
       <<[id |-> "a", callsNext |-> TRUE], [id |-> "b", callsNext |-> FALSE]>>
  /\ lastComposer.run.result = "b"

\* C18: at most one Composer is ever constructed for a name, addComposer on
\* an existing name leaves every pipeline as it was, and the pipeline of a
\* composer is the stack it was created with followed by the middlewares
\* use added, in the order of the use calls.
C18_EnsureIdempotent ==
  /\ \A n \in ComposerNames :
       /\ composerLog[n].created <= 1
       /\ n \in DOMAIN composersStack <=> composerLog[n].created = 1
       /\ n \in DOMAIN composersStack => composersStack[n] = Registered(n)
  /\ (lastComposer.op = "addComposer"
        /\ lastComposer.name \in DOMAIN lastComposer.before)
       => composersStack = lastComposer.before

\* C18 witness: addComposer was called again on a composer created empty
\* that three use calls had filled, and its pipeline is those three
C18_Witness ==
  /\ lastComposer.op = "addComposer"
  /\ lastComposer.name \in DOMAIN lastComposer.before
  /\ composerLog[lastComposer.name].seeded = <<>>
  /\ Len(composerLog[lastComposer.name].appended) = 3
  /\ composersStack[lastComposer.name] = composerLog[lastComposer.name].appended

----------------------------------------------------------------------------
(***************************************************************************)
(* Properties of the exception handler registry.                           *)
(***************************************************************************)
\* C19: removeExceptionHandler, given the array returned for a handler f
\* when no handler of that exception type was removed since, removes f and
\* nothing else, whatever handleException and handleExceptionFirstly calls
\* came in between.
C19_FreshHandleRemovesItsHandler ==
  (handles.lastCall.op = "removeExceptionHandler" /\ handles.lastCall.handle.fresh)
  => LET r == handles.lastCall
         i == r.handle.position + 1
     IN /\ i <= Len(r.before)
        /\ r.before[i] = r.handle.handler
        /\ r.after = RemoveAt(r.before, i)

----------------------------------------------------------------------------
(***************************************************************************)
(* Further properties of register and commit.                              *)
(***************************************************************************)
IsPrefix(s, t) == Len(s) <= Len(t) /\ SubSeq(t, 1, Len(s)) = s

\* the names a setup call has marked installed: those of the onEnable
\* invocations it started
MarkedBy(s) ==
  {enables[j].name : j \in {j \in Range(setups[s].awaits) : enables[j].by = "setup"}}

\* every name a rejected setup call marked installed is in the installed list
RejectedSetupsKeepInstalled ==
  \A s \in 1..Len(setups) :
    setups[s].state = "rejected" => \A n \in MarkedBy(s) : hasPlugin(plugins, n)

\* C21: no step takes a name out of the installed list (the list before a
\* step is a prefix of the list after it), and after a setup call has failed
\* because an onEnable promise rejected, the names it marked installed are
\* still installed.
C21_InstalledOnlyGrows ==
  [][IsPrefix(plugins, plugins') /\ RejectedSetupsKeepInstalled']_vars

\* C21 witness: a setup call that enabled a queued plugin has failed after an
\* immediate extend had installed another plugin, and both are installed
C21_Witness ==
  \E s \in 1..Len(setups) :
    /\ setups[s].state = "rejected"
    /\ MarkedBy(s) # {}
    /\ \E i \in 1..Len(enables) :
         /\ enables[i].by = "extend"
         /\ i < setups[s].awaits[1]
         /\ hasPlugin(plugins, enables[i].name)
    /\ \A n \in MarkedBy(s) : hasPlugin(plugins, n)

----------------------------------------------------------------------------
(***************************************************************************)
(* Further properties of the exception handler registry.                   *)
(***************************************************************************)
\* the handler list of exception type T in a handlers map after a call on
\* exception type C left it as list: only C's list is the new one
ListsAfter(was, now, C, list) ==
  \A T \in HandledTypes :
    exceptionHandlers(now, T) = IF T = C THEN list ELSE exceptionHandlers(was, T)

\* C22: no list has a handler before the first registration; a
\* handleException call puts its handler last in the list of its exception
\* type, a handleExceptionFirstly call first, a removeExceptionHandler call
\* deletes the element at its position (nothing when out of range), and each
\* keeps the order of the rest and the lists of the other types;
\* processHandlers invokes the handlers of a matching type from first to
\* last in that list, each with the error and its exception type.
C22_HandlerListFollowsCalls ==
  /\ handles.issued = <<>> => \A T \in HandledTypes : exceptionHandlers(handlers, T) = <<>>
  /\ handles.lastCall.op \in {"handleException", "handleExceptionFirstly"}
       => LET r == handles.lastCall
              list == exceptionHandlers(r.was, r.exceptionType)
          IN ListsAfter(r.was, r.now, r.exceptionType,
                        IF r.op = "handleException" THEN list \o <<r.handler>>
                        ELSE <<r.handler>> \o list)
  /\ handles.lastCall.op = "removeExceptionHandler"
       => LET r == handles.lastCall
              list == exceptionHandlers(r.was, r.handle.exceptionType)
              i == r.handle.position + 1
          IN ListsAfter(r.was, r.now, r.handle.exceptionType,
                        IF i \in 1..Len(list) THEN RemoveAt(list, i) ELSE list)
  /\ handles.quiet
       => \A i \in 1..Len(call.invoked) :
            LET e == call.invoked[i]
                list == exceptionHandlers(handlers, e.category)
            IN /\ e.index \in 1..Len(list)
               /\ e.handler = list[e.index]
               /\ e.error = call.error
               /\ e.exceptionType = call.exceptionType
               /\ IF i > 1 /\ call.invoked[i - 1].ci = e.ci
                  THEN e.index = call.invoked[i - 1].index + 1
                  ELSE e.index = 1
               /\ i > 1 => call.invoked[i - 1].ci <= e.ci

\* C22 witness: after a handleExceptionFirstly call on a list that had a
\* handler, processHandlers has invoked the first and then the second handler
\* of that list
C22_Witness ==
  /\ handles.quiet
  /\ handles.lastCall.op = "handleExceptionFirstly"
  /\ \E i \in 2..Len(call.invoked) :
       /\ call.invoked[i].category = handles.lastCall.exceptionType
       /\ call.invoked[i].ci = call.invoked[i - 1].ci
       /\ call.invoked[i].index = 2
       /\ call.invoked[i - 1].handler = handles.lastCall.handler

----------------------------------------------------------------------------
(***************************************************************************)
(* Further properties of the response classification and of the API call.  *)
(***************************************************************************)
Description == Get(res, "error_description")
NestedMessage == Get(Marker, "message")
NestedMsg == Get(Marker, "error_msg")

\* C23: the message of the exception thrown for a body with an error marker
\* is the top-level error_description when there is one, also next to a
\* nested message or error_msg; else the nested message; else the nested
\* error_msg.  When it is a nested one the code is the nested error_code.
C23_MessagePrecedence ==
  IsError
  => /\ outcome.kind = "throw"
     /\ outcome.message =
          IF Description # Undef THEN Description
          ELSE IF NestedMessage # Undef THEN NestedMessage
          ELSE NestedMsg
     /\ (Description = Undef /\ (NestedMessage # Undef \/ NestedMsg # Undef))
          => outcome.data.code = NestedCode

\* C23 witness: a body with an error_description and a nested message was
\* thrown with the description as message
C23_Witness ==
  /\ IsError
  /\ Description # Undef
  /\ NestedMessage # Undef
  /\ outcome.kind = "throw"
  /\ outcome.message = Description

\* C24: once processHandlers has run to its end, every invoked handler
\* having returned, its promise, and with it the API call, is settled:
\* resolved or rejected, whatever the handlers returned.
C24_ResolveSettles ==
  call.pc = "finished" => call.promise.state \in {"resolved", "rejected"}

\* the plugins whose onEnable was invoked before the latest invocation
EnabledEarlier == {enables[j].name : j \in 1..(Len(enables) - 1)}

\* C25: onEnable of a plugin is never invoked before onEnable of each plugin
\* its requirements name: an immediate extend that succeeds, and so has just
\* invoked onEnable of its plugin, finds every required plugin enabled
\* earlier, none of them merely queued.
C25_RequirementsEnabledFirst ==
  LastExtendOk(FALSE) => last.requirements \subseteq EnabledEarlier

\* the invocations the call c made in the category number i
InvokedIn(c, i) == {k \in 1..Len(c.invoked) : c.invoked[k].ci = i}

\* c invokes the handlers of the lists it started on, and no others: every
\* invocation is the next handler of the list its category had when c
\* reached the category, and a category c has left was run to the end of
\* that list or to a handler that handled the error
IteratesStartedLists(c) ==
  /\ \A k \in 1..Len(c.invoked) :
       LET e == c.invoked[k]
       IN /\ e.ci \in 1..Len(c.scan)
          /\ c.scan[e.ci].matched
          /\ e.index \in 1..Len(c.scan[e.ci].handlers)
          /\ e.handler = c.scan[e.ci].handlers[e.index]
          /\ IF k > 1 /\ c.invoked[k - 1].ci = e.ci
             THEN /\ e.index = c.invoked[k - 1].index + 1
                  /\ c.invoked[k - 1].returned = c.error
             ELSE /\ e.index = 1
                  /\ k > 1 => c.invoked[k - 1].ci < e.ci
  /\ \A i \in 1..Len(c.scan) :
       (c.scan[i].matched /\ (i < c.ci \/ c.pc = "finished"))
         => \/ Cardinality(InvokedIn(c, i)) = Len(c.scan[i].handlers)
            \/ \E k \in InvokedIn(c, i) : c.invoked[k].returned # c.error

\* the lists c has started on stay as they were, and a category c reaches
\* in this step is started on the list the registry holds for it now
StartsOnCurrentLists(c, d) ==
  /\ IsPrefix(c.scan, d.scan)
  /\ \A i \in (Len(c.scan) + 1)..Len(d.scan) :
       d.scan[i].handlers =
         IF d.scan[i].matched
         THEN exceptionHandlers(handlers, d.scan[i].category)
         ELSE <<>>

\* C26: handleException, handleExceptionFirstly and removeExceptionHandler
\* on a category, called while a processHandlers is suspended in a handler
\* of that category, leave the sequence it iterates as it is: it invokes
\* the handlers the list had when it reached the category, each once and in
\* order; the changed list is used by the processHandlers that reach the
\* category afterwards; and of two calls in flight each iterates for
\* itself, a step of one leaving the position of the other alone.
C26_InFlightResolveKeepsItsList ==
  [][/\ IteratesStartedLists(call')
     /\ IteratesStartedLists(other')
     /\ StartsOnCurrentLists(call, call')
     /\ StartsOnCurrentLists(other, other')
     /\ handlers' # handlers => (call' = call /\ other' = other)
     /\ ~(call' # call /\ other' # other)]_vars

\* C26 witness: the first call went on to the second handler of a category
\* whose list had been changed since it reached the category, and the
\* second call, which reached the category after the change, has invoked
\* a handler of the changed list
C26_Witness ==
  \E k \in 2..Len(call.invoked) :
    LET e == call.invoked[k]
    IN /\ call.invoked[k - 1].ci = e.ci
       /\ e.live # call.scan[e.ci].handlers
       /\ Len(other.scan) >= e.ci
       /\ other.scan[e.ci].handlers = e.live
       /\ \E j \in 1..Len(other.invoked) : other.invoked[j].ci = e.ci
====
